---- MODULE Spec2Model ----
(***************************************************************************)
(* State-machine model of lightwood.encoders.text.pretrained.PretrainedLang *)
(* (src/lightwood/encoders/text/pretrained.py): one encoder object, its     *)
(* fields, and the handlers prepare / encode / decode / to.                 *)
(*                                                                          *)
(* The tokenizer and the backbone are external objects (transformers); they *)
(* are represented by small total stand-ins (TokenizerEncode, Forward).     *)
(* What torch does to the values the source hands it (mean over dim=1,      *)
(* .numpy(), stack) is modelled on shapes and value kinds.                  *)
(***************************************************************************)
EXTENDS Naturals, Sequences, FiniteSets

VARIABLES
    model_name,        \* constructor argument model_name
    sent_embedder,     \* constructor argument sent_embedder
    _custom_train,     \* self._custom_train
    binding,           \* self._classifier_model_class, _embeddings_model_class,
                       \* _tokenizer_class, _pretrained_model_name
    _sent_embedder,    \* self._sent_embedder (name of the bound method)
    device,            \* self.device, from get_devices()
    _tokenizer,        \* self._tokenizer
    _model,            \* self._model
    _model_type,       \* self._model_type
    _head,             \* self._head
    _prepared,         \* self._prepared (BaseEncoder bookkeeping)
    ret,               \* the last call: operation, arguments, exception or value
    called             \* history: the operations called so far

config == <<model_name, sent_embedder, _custom_train, binding, _sent_embedder, device>>
fields == <<_tokenizer, _model, _model_type, _head, _prepared>>
vars == <<model_name, sent_embedder, _custom_train, binding, _sent_embedder, device,
          _tokenizer, _model, _model_type, _head, _prepared, ret, called>>

---------------------------------------------------------------------------
(* Bounds of the model *)

\* longest column_data passed to encode
MaxLen == 2

\* hidden size of the stand-in backbone (768 for the real gpt2)
HiddenDim == 3

---------------------------------------------------------------------------
(* Values *)

None == "None"

\* model_name values tried: the four families and an unrecognized name
ModelNames == {"distilbert", "albert", "bart", "gpt2", "t5"}

Devices == {"cpu", "cuda"}

\* A text value of column_data: Python None, or a str given as its words.
NoneText == [null |-> TRUE, words |-> <<>>]
Str(ws) == [null |-> FALSE, words |-> ws]
Texts == {NoneText, Str(<<>>), Str(<<"hello", "world">>)}

RECURSIVE SeqsUpTo(_, _)
SeqsUpTo(S, n) ==
    IF n = 0 THEN {<<>>}
    ELSE LET shorter == SeqsUpTo(S, n - 1)
         IN shorter \cup {Append(s, x) : s \in {t \in shorter : Len(t) = n - 1}, x \in S}

ColumnData == SeqsUpTo(Texts, MaxLen)

EmbeddingsGenerator == "embeddings_generator"

\* Exceptions the handlers end with
AlreadyPreparedError == "Exception: Encoder is already prepared."
TrainNotImplementedError == "NotImplementedError: TODO; train fxn not implemented"
DecoderNotImplementedError == "Exception: Decoder not implemented yet."
TokenizerFetchError == "OSError: tokenizer from_pretrained failed"
BackboneFetchError == "OSError: model from_pretrained failed"
NoneHasNoToError == "AttributeError: 'NoneType' object has no attribute 'to'"
NoneNotCallableError == "TypeError: 'NoneType' object is not callable"
StackEmptyError == "RuntimeError: stack expects a non-empty TensorList"
StackNdarrayError == "TypeError: expected Tensor as element 0 in argument 0, but got numpy.ndarray"

NoModel == [cls |-> None, device |-> None]

\* The record of one call.  exc = None: the call returned `value`.
Call(op, exc, value, dev, column_data, tokenized, encoded) ==
    [op |-> op, exc |-> exc, value |-> value, device |-> dev,
     column_data |-> column_data, tokenized |-> tokenized,
     encoded_representation |-> encoded]

NoCall == Call("__init__", None, None, None, <<>>, <<>>, <<>>)

---------------------------------------------------------------------------
(* Construction *)

\* A mutated registry: bart is missing and falls through to gpt2.
ModelBindingNoBart(name) ==
    IF name = "distilbert" THEN
        [classifier |-> "DistilBertForSequenceClassification",
         embeddings |-> "DistilBertModel",
         tokenizer |-> "DistilBertTokenizerFast",
         pretrained |-> "distilbert-base-uncased"]
    ELSE IF name = "albert" THEN
        [classifier |-> "AlbertForSequenceClassification",
         embeddings |-> "AlbertModel",
         tokenizer |-> "AlbertTokenizerFast",
         pretrained |-> "albert-base-v2"]
    ELSE
        [classifier |-> "GPT2ForSequenceClassification",
         embeddings |-> "GPT2Model",
         tokenizer |-> "GPT2TokenizerFast",
         pretrained |-> "gpt2"]

\* __init__, the chain of conditionals on model_name
ModelBinding(name) ==
    IF name = "distilbert" THEN
        [classifier |-> "DistilBertForSequenceClassification",
         embeddings |-> "DistilBertModel",
         tokenizer |-> "DistilBertTokenizerFast",
         pretrained |-> "distilbert-base-uncased"]
    ELSE IF name = "albert" THEN
        [classifier |-> "AlbertForSequenceClassification",
         embeddings |-> "AlbertModel",
         tokenizer |-> "AlbertTokenizerFast",
         pretrained |-> "albert-base-v2"]
    ELSE IF name = "bart" THEN
        [classifier |-> "BartForSequenceClassification",
         embeddings |-> "BartModel",
         tokenizer |-> "BartTokenizerFast",
         pretrained |-> "facebook/bart-large"]
    ELSE
        [classifier |-> "GPT2ForSequenceClassification",
         embeddings |-> "GPT2Model",
         tokenizer |-> "GPT2TokenizerFast",
         pretrained |-> "gpt2"]

\* __init__, the choice of the sentence embedder: both branches bind _mean_norm
SentEmbedder(name) ==
    IF name = "last_token" THEN "_mean_norm" ELSE "_mean_norm"

\* The encoder right after PretrainedLang(model_name=..., custom_train=...,
\* custom_tokenizer=..., sent_embedder=...)
Init ==
    /\ model_name \in ModelNames
    /\ sent_embedder \in {"mean_norm", "last_token"}
    /\ _custom_train \in BOOLEAN
    /\ binding = ModelBinding(model_name)
    /\ _sent_embedder = SentEmbedder(sent_embedder)
    /\ device \in Devices
    /\ _tokenizer \in {None, "custom_tokenizer"}
    /\ _model = NoModel
    /\ _model_type = None
    /\ _head = None
    /\ _prepared = FALSE
    /\ ret = NoCall
    /\ called = {}

---------------------------------------------------------------------------
(* The external tokenizer and backbone, and the torch operations used *)

\* Stand-in vocabulary of the tokenizer
TokenId(w) == IF w = "hello" THEN 1 ELSE 2

\* self._tokenizer.encode(text): one token id per word; '' gives no token
TokenizerEncode(text) == [i \in 1..Len(text.words) |-> TokenId(text.words[i])]

\* Stand-in hidden state of one token: HiddenDim numbers
Embed(t) == [j \in 1..HiddenDim |-> 10 * t + j]

\* self._model(inp).last_hidden_state.  The backbone decides whether a batch
\* axis is present: Nbatch x Ntokens x Nembedding (the _mean_norm docstring),
\* or Ntokens x Nembedding for a single unbatched input.
Forward(inp, batched) ==
    LET states == [i \in 1..Len(inp) |-> Embed(inp[i])]
    IN IF batched
       THEN [kind |-> "Tensor", shape |-> <<1, Len(inp), HiddenDim>>, data |-> <<states>>]
       ELSE [kind |-> "Tensor", shape |-> <<Len(inp), HiddenDim>>, data |-> states]

RECURSIVE SumSeq(_)
SumSeq(s) == IF s = <<>> THEN 0 ELSE Head(s) + SumSeq(Tail(s))

\* The mean of a sequence of numbers as the fraction num/den; 0/0 is nan.
Avg(s) == [num |-> SumSeq(s), den |-> Len(s)]

\* torch.mean(xinp, dim=1): removes axis 1 (0-based) of a 2-D or 3-D tensor
TorchMeanDim1(xinp) ==
    IF Len(xinp.shape) = 2
    THEN [kind |-> "Tensor",
          shape |-> <<xinp.shape[1]>>,
          data |-> [i \in 1..xinp.shape[1] |-> Avg(xinp.data[i])]]
    ELSE [kind |-> "Tensor",
          shape |-> <<xinp.shape[1], xinp.shape[3]>>,
          data |-> [b \in 1..xinp.shape[1] |->
                      [h \in 1..xinp.shape[3] |->
                          Avg([t \in 1..xinp.shape[2] |-> xinp.data[b][t][h]])]]]

\* _mean_norm(xinp, dim=1) = torch.mean(xinp, dim=dim).detach().numpy()
\* The result is a numpy array, no longer a torch.Tensor.
_mean_norm(xinp) == [TorchMeanDim1(xinp) EXCEPT !.kind = "ndarray"]

\* torch.stack(tensors): needs a non-empty list of Tensors of one shape
TorchStack(tensors) ==
    IF tensors = <<>> THEN [exc |-> StackEmptyError, value |-> None]
    ELSE IF \E i \in 1..Len(tensors) : tensors[i].kind # "Tensor"
    THEN [exc |-> StackNdarrayError, value |-> None]
    ELSE IF \E i \in 1..Len(tensors) : tensors[i].shape # tensors[1].shape
    THEN [exc |-> "RuntimeError: stack expects each tensor to be equal size", value |-> None]
    ELSE [exc |-> None,
          value |-> [kind |-> "Tensor",
                     shape |-> <<Len(tensors)>> \o tensors[1].shape,
                     data |-> [i \in 1..Len(tensors) |-> tensors[i].data]]]

---------------------------------------------------------------------------
(* Handlers *)

\* prepare, line 145: the guard of the already-prepared check
PrepareGuardNever == FALSE

PrepareGuard == _prepared

\* prepare, line 155: the custom_train test
TrainOnTargetNever == FALSE

TrainOnTarget == _custom_train = TRUE

\* prepare().  tokOk / modelOk: whether the two from_pretrained calls succeed.
Prepare ==
    \E tokOk \in BOOLEAN, modelOk \in BOOLEAN :
        LET tok == IF _tokenizer = None THEN binding.tokenizer ELSE _tokenizer
            done(exc) == Call("prepare", exc, None, None, <<>>, <<>>, <<>>)
        IN /\ called' = called \cup {"prepare"}
           /\ UNCHANGED <<config, _head>>
           /\ IF PrepareGuard THEN
                  /\ ret' = done(AlreadyPreparedError)
                  /\ UNCHANGED <<_tokenizer, _model, _model_type, _prepared>>
              ELSE IF _tokenizer = None /\ ~tokOk THEN
                  /\ ret' = done(TokenizerFetchError)
                  /\ UNCHANGED <<_tokenizer, _model, _model_type, _prepared>>
              ELSE IF TrainOnTarget THEN
                  /\ _tokenizer' = tok
                  /\ ret' = done(TrainNotImplementedError)
                  /\ UNCHANGED <<_model, _model_type, _prepared>>
              ELSE IF ~modelOk THEN
                  /\ _tokenizer' = tok
                  /\ _model_type' = EmbeddingsGenerator
                  /\ ret' = done(BackboneFetchError)
                  /\ UNCHANGED <<_model, _prepared>>
              ELSE
                  /\ _tokenizer' = tok
                  /\ _model_type' = EmbeddingsGenerator
                  /\ _model' = [cls |-> binding.embeddings, device |-> device]
                  /\ _prepared' = TRUE
                  /\ ret' = done(None)

\* encode, lines 185-186: None becomes ''
OmitNaN(text) == IF text = NoneText THEN Str(<<>>) ELSE text

\* encode, the loop of lines 182-195 from element i on.  acc carries the
\* texts handed to the tokenizer and encoded_representation so far.
RECURSIVE EncodeLoop(_, _, _, _)
EncodeLoop(column_data, i, batched, acc) ==
    IF i > Len(column_data) THEN acc
    ELSE LET text == OmitNaN(column_data[i])
             seen == Append(acc.tokenized, text)
         IN IF _tokenizer = None
            THEN [acc EXCEPT !.exc = "AttributeError: 'NoneType' object has no attribute 'encode'"]
            ELSE IF _model = NoModel
            THEN [acc EXCEPT !.exc = NoneNotCallableError, !.tokenized = seen]
            ELSE LET inp == TokenizerEncode(text)
                     output == _mean_norm(Forward(inp, batched))
                 IN EncodeLoop(column_data, i + 1, batched,
                               [exc |-> None,
                                tokenized |-> seen,
                                encoded |-> Append(acc.encoded, output)])

\* encode(column_data): what the call ends with
EncodeResult(column_data, batched) ==
    LET start == [exc |-> None, tokenized |-> <<>>, encoded |-> <<>>]
        loop == IF _model_type = EmbeddingsGenerator
                THEN EncodeLoop(column_data, 1, batched, start)
                ELSE start
        stacked == TorchStack(loop.encoded)
    IN IF loop.exc # None
       THEN Call("encode", loop.exc, None, None, column_data, loop.tokenized, loop.encoded)
       ELSE Call("encode", stacked.exc, stacked.value, None, column_data,
                 loop.tokenized, loop.encoded)

Encode ==
    \E column_data \in ColumnData, batched \in BOOLEAN :
        /\ ret' = EncodeResult(column_data, batched)
        /\ called' = called \cup {"encode"}
        /\ UNCHANGED <<config, fields>>

\* A decode that answers once the encoder is prepared
DecodeOutcomeWhenPrepared == IF _prepared THEN None ELSE DecoderNotImplementedError

\* decode(encoded_values_tensor, max_length): the raise of line 200
DecodeOutcome == DecoderNotImplementedError

Decode ==
    /\ ret' = Call("decode", DecodeOutcome, None, None, <<>>, <<>>, <<>>)
    /\ called' = called \cup {"decode"}
    /\ UNCHANGED <<config, fields>>

\* to(device, available_devices): the argument is not read; the backbone and
\* the head go to self.device
To ==
    \E dev \in Devices :
        /\ called' = called \cup {"to"}
        /\ UNCHANGED <<config, _tokenizer, _model_type, _prepared>>
        /\ IF _model = NoModel THEN
               /\ ret' = Call("to", NoneHasNoToError, None, dev, <<>>, <<>>, <<>>)
               /\ UNCHANGED <<_model, _head>>
           ELSE
               /\ _model' = [_model EXCEPT !.device = device]
               /\ _head' = IF _head # None THEN "head on " \o device ELSE _head
               /\ ret' = Call("to", None, "self", dev, <<>>, <<>>, <<>>)

Next == Prepare \/ Encode \/ Decode \/ To

Spec == Init /\ [][Next]_vars

---------------------------------------------------------------------------
(* Claims *)

Families == {"distilbert", "albert", "bart", "gpt2"}
AllOps == {"prepare", "encode", "decode", "to"}

\* The pooled row the claims expect for one input text: the embedding of the
\* text with None read as '', under either layout of the hidden states.
PooledRows(text) ==
    {_mean_norm(Forward(TokenizerEncode(OmitNaN(text)), b)).data : b \in BOOLEAN}

\* A misuse error that says the encoder is not prepared
NotPreparedError == "Exception: Encoder is not prepared."

\* C1 (as claimed): an encode call on an encoder that is not prepared ends
\* with a "not prepared" error and has handed nothing to the tokenizer.
C1_EncodeUnpreparedRejected ==
    (ret.op = "encode" /\ ~_prepared) =>
        (ret.exc = NotPreparedError /\ ret.tokenized = <<>>)

\* C2: once the encoder is prepared, every prepare call ends with the
\* "already prepared" error and leaves tokenizer, backbone, mode and the
\* prepared flag as they were.
C2_SecondPrepareRejected ==
    [][(_prepared /\ ret'.op = "prepare") =>
          (/\ ret'.exc = AlreadyPreparedError
           /\ UNCHANGED <<_tokenizer, _model, _model_type, _prepared>>)]_vars

\* C2 witness: a rejected prepare on a prepared encoder, after encode, decode
\* and to were all called.
C2_Witness ==
    /\ _prepared
    /\ ret.op = "prepare"
    /\ ret.exc = AlreadyPreparedError
    /\ AllOps \subseteq called

\* C3 (as claimed): with custom_train=True every prepare call ends with the
\* unimplemented-capability error, and no backbone, mode or Prepared state.
C3_Original ==
    (_custom_train /\ ret.op = "prepare") =>
        (/\ ret.exc = TrainNotImplementedError
         /\ _model = NoModel
         /\ _model_type = None
         /\ ~_prepared)

\* C3 (amended): with custom_train=True the encoder never holds a backbone or
\* a mode and is never prepared, and every prepare call ends with the
\* unimplemented-capability error, or with the tokenizer's fetch error when
\* no tokenizer is set yet (the tokenizer is resolved before custom_train is
\* looked at).
C3_CustomTrainNeverPrepares ==
    _custom_train =>
        (/\ _model = NoModel
         /\ _model_type = None
         /\ ~_prepared
         /\ ret.op = "prepare" =>
               \/ ret.exc = TrainNotImplementedError
               \/ (ret.exc = TokenizerFetchError /\ _tokenizer = None))

\* C3 witness: a custom_train encoder whose tokenizer was loaded by prepare
\* and whose prepare ended with the unimplemented-capability error.
C3_Witness ==
    /\ _custom_train
    /\ ret.op = "prepare"
    /\ ret.exc = TrainNotImplementedError
    /\ _tokenizer = binding.tokenizer

\* C4: every decode call ends with the not-implemented error and changes no
\* field of the encoder.
C4_DecodeAlwaysFails ==
    [][ret'.op = "decode" =>
          (ret'.exc = DecoderNotImplementedError /\ UNCHANGED <<config, fields>>)]_vars

\* C4 witness: decode was rejected on a prepared encoder.
C4_Witness ==
    /\ ret.op = "decode"
    /\ ret.exc = DecoderNotImplementedError
    /\ _prepared

\* C5 (as claimed): on a prepared encoder encode returns one row per input,
\* row i being the pooled embedding of input i.
C5_RowPerInput ==
    (_prepared /\ ret.op = "encode") =>
        (/\ ret.exc = None
         /\ ret.value.shape[1] = Len(ret.column_data)
         /\ \A i \in 1..Len(ret.column_data) :
               ret.value.data[i] \in PooledRows(ret.column_data[i]))

\* C6 (as claimed): on a prepared encoder an encode call whose input holds a
\* None hands no None to the tokenizer, does not fail, and returns for each
\* None the row of the empty string.
C6_NoneIsEmptyString ==
    (/\ _prepared
     /\ ret.op = "encode"
     /\ \E i \in 1..Len(ret.column_data) : ret.column_data[i] = NoneText) =>
        (/\ \A i \in 1..Len(ret.tokenized) : ret.tokenized[i] # NoneText
         /\ ret.exc = None
         /\ \A i \in 1..Len(ret.column_data) :
               ret.column_data[i] = NoneText =>
                   ret.value.data[i] \in PooledRows(Str(<<>>)))

RECURSIVE Product(_)
Product(s) == IF s = <<>> THEN 1 ELSE Head(s) * Product(Tail(s))

\* C7 (as claimed): every sentence vector encode produces holds exactly
\* hidden-size numbers along its last axis, whatever the number of tokens of
\* the input it was pooled from.
C7_FixedLengthRows ==
    (_prepared /\ ret.op = "encode") =>
        \A i \in 1..Len(ret.encoded_representation) :
            LET shape == ret.encoded_representation[i].shape
            IN shape[Len(shape)] = HiddenDim /\ Product(shape) = HiddenDim

\* C8: the binding is the one of the family model_name names, the gpt2 one for
\* any other name, and no call changes it.
C8_BindingResolved ==
    /\ [](/\ model_name = "distilbert" =>
               binding = [classifier |-> "DistilBertForSequenceClassification",
                          embeddings |-> "DistilBertModel",
                          tokenizer |-> "DistilBertTokenizerFast",
                          pretrained |-> "distilbert-base-uncased"]
          /\ model_name = "albert" =>
               binding = [classifier |-> "AlbertForSequenceClassification",
                          embeddings |-> "AlbertModel",
                          tokenizer |-> "AlbertTokenizerFast",
                          pretrained |-> "albert-base-v2"]
          /\ model_name = "bart" =>
               binding = [classifier |-> "BartForSequenceClassification",
                          embeddings |-> "BartModel",
                          tokenizer |-> "BartTokenizerFast",
                          pretrained |-> "facebook/bart-large"]
          /\ (model_name = "gpt2" \/ model_name \notin Families) =>
               binding = [classifier |-> "GPT2ForSequenceClassification",
                          embeddings |-> "GPT2Model",
                          tokenizer |-> "GPT2TokenizerFast",
                          pretrained |-> "gpt2"])
    /\ [][binding' = binding /\ model_name' = model_name]_vars

\* C8 witness: an unrecognized model_name bound to gpt2, after all four
\* operations were called on the encoder.
C8_Witness ==
    /\ model_name \notin Families
    /\ binding.pretrained = "gpt2"
    /\ AllOps \subseteq called
    /\ _prepared

\* C9 (as claimed): a to(device) call that returns has put the backbone on
\* the device passed by the caller and returned the encoder.
C9_ToMovesToArgument ==
    (ret.op = "to" /\ ret.exc = None) =>
        (_model.device = ret.device /\ ret.value = "self")

\* C10 (as claimed): prepared, mode and backbone agree in every state.
C10_PreparedModeBackboneAgree ==
    /\ _prepared <=> _model_type = EmbeddingsGenerator
    /\ _prepared <=> _model # NoModel
    /\ _prepared => _tokenizer # None
    /\ _model_type # "fine_tuned_classifier"

====
